---- MODULE Spec2Model ----
(***************************************************************************)
(* Model of two parts of bp-std:                                           *)
(*   psbt/src/locktime.rs   LockTimestamp and LockHeight, their fallible    *)
(*                          constructors, Display and FromStr               *)
(*   std/src/descriptors.rs Wpkh, TrKey and DescriptorStd                   *)
(*                                                                         *)
(* A u32 is held as a pair <<hi, lo>> of base-10^5 limbs, value             *)
(* hi * 10^5 + lo, because the model checker's integers are 32-bit signed   *)
(* and cannot hold the upper half of the u32 range.  Text is a sequence of  *)
(* one-character strings.                                                   *)
(***************************************************************************)
EXTENDS Integers, Sequences, FiniteSets, TLC

VARIABLES lock, text, last, desc, call

vars == <<lock, text, last, desc, call>>

(***************************************************************************)
(* Bounds of the model.                                                    *)
(***************************************************************************)
\* how far around 0, the threshold and u32::MAX the input integers reach
Spread == 2
\* the largest number of ')' that closes an input text
MaxClose == 2
\* keychains 0..MaxKeychain and indexes 0..MaxIndex of the terminals
MaxKeychain == 1
MaxIndex == 1

(***************************************************************************)
(* u32 arithmetic on limbs.                                                *)
(***************************************************************************)
Base == 10^5

U32Of(n) == <<n \div Base, n % Base>>

U32Max == <<42949, 67295>>

U32Lt(a, b) == a[1] < b[1] \/ (a[1] = b[1] /\ a[2] < b[2])

U32Le(a, b) == a = b \/ U32Lt(a, b)

U32Zero == U32Of(0)

\* quotient and remainder of a u32 by ten, by long division over the limbs
U32Div10(a) ==
    LET rh == a[1] % 10
    IN  <<a[1] \div 10, (rh * Base + a[2]) \div 10>>

U32Mod10(a) == ((a[1] % 10) * Base + a[2]) % 10

\* a * 10 + d without a width: the limbs of the exact result (hi may leave
\* the u32 range, which U32Fits tells)
U32MulAdd10(a, d) ==
    LET l == a[2] * 10 + d
    IN  <<a[1] * 10 + l \div Base, l % Base>>

U32Fits(a) == U32Le(a, U32Max)

LOCKTIME_THRESHOLD == U32Of(500000000)

(***************************************************************************)
(* Option and Result values.                                               *)
(***************************************************************************)
None == <<"None">>
Some(x) == <<"Some", x>>
Ok(x) == <<"Ok", x>>
Err(e) == <<"Err", e>>
IsOk(r) == r[1] = "Ok"
IsErr(r) == r[1] = "Err"
IsSome(o) == o[1] = "Some"

InvalidTimelock == [kind |-> "InvalidTimelock"]

(***************************************************************************)
(* Text: to_lowercase, starts_with, ends_with, slicing, trim_end_matches,   *)
(* and the decimal conversions of u32.                                      *)
(***************************************************************************)
Upper == <<"A", "B", "E", "G", "H", "I", "M", "N", "O", "R", "T">>
Lower == <<"a", "b", "e", "g", "h", "i", "m", "n", "o", "r", "t">>

char_to_lowercase(c) ==
    IF \E i \in 1..Len(Upper) : Upper[i] = c
    THEN Lower[CHOOSE i \in 1..Len(Upper) : Upper[i] = c]
    ELSE c

to_lowercase(s) == [i \in 1..Len(s) |-> char_to_lowercase(s[i])]

starts_with(s, p) == Len(s) >= Len(p) /\ SubSeq(s, 1, Len(p)) = p

ends_with(s, c) == Len(s) >= 1 /\ s[Len(s)] = c

\* s[n..]
slice_from(s, n) == SubSeq(s, n + 1, Len(s))

RECURSIVE trim_end_matches(_, _)
trim_end_matches(s, c) ==
    IF Len(s) > 0 /\ s[Len(s)] = c
    THEN trim_end_matches(SubSeq(s, 1, Len(s) - 1), c)
    ELSE s

DigitChars == <<"0", "1", "2", "3", "4", "5", "6", "7", "8", "9">>

IsDigit(c) == \E d \in 0..9 : DigitChars[d + 1] = c

to_digit(c) == CHOOSE d \in 0..9 : DigitChars[d + 1] = c

\* Display for u32: the decimal digits, most significant first, "0" for zero
RECURSIVE u32_fmt(_)
u32_fmt(a) ==
    IF a[1] = 0 /\ a[2] < 10
    THEN <<DigitChars[a[2] + 1]>>
    ELSE u32_fmt(U32Div10(a)) \o <<DigitChars[U32Mod10(a) + 1]>>

\* the digit loop of u32::from_str: checked_mul(10), checked_add(digit)
RECURSIVE u32_digits(_, _)
u32_digits(acc, s) ==
    IF Len(s) = 0 THEN Ok(acc)
    ELSE IF ~IsDigit(s[1]) THEN Err([kind |-> "ParseIntError", cause |-> "InvalidDigit"])
    ELSE LET next == U32MulAdd10(acc, to_digit(s[1]))
         IN  IF ~U32Fits(next)
             THEN Err([kind |-> "ParseIntError", cause |-> "PosOverflow"])
             ELSE u32_digits(next, Tail(s))

\* str::parse::<u32>(): empty text, a lone sign and '-' are errors, one
\* leading '+' is skipped
u32_parse(s) ==
    IF Len(s) = 0 THEN Err([kind |-> "ParseIntError", cause |-> "Empty"])
    ELSE IF Len(s) = 1 /\ s[1] \in {"+", "-"}
         THEN Err([kind |-> "ParseIntError", cause |-> "InvalidDigit"])
    ELSE IF s[1] = "+" THEN u32_digits(U32Zero, Tail(s))
    ELSE u32_digits(U32Zero, s)

(***************************************************************************)
(* bp::LockTime, as locktime.rs uses it: a wrapped consensus u32 that is    *)
(* height based below the threshold and time based from it on.              *)
(***************************************************************************)
LockTime_from_consensus(value) == [LockTime |-> value]

LockTime_into_consensus(lock_time) == lock_time.LockTime

is_height_based(lock_time) == U32Lt(lock_time.LockTime, LOCKTIME_THRESHOLD)

is_time_based(lock_time) == ~is_height_based(lock_time)

(***************************************************************************)
(* LockTimestamp                                                           *)
(***************************************************************************)
LockTimestamp(v) == [v |-> v, ty |-> "LockTimestamp"]

\* a variant that lacks the guard on the flavour of the lock time
LockTimestamp_try_from_LockTime_unguarded(lock_time) ==
    Ok([v |-> LockTime_into_consensus(lock_time), ty |-> "LockTimestamp"])

LockTimestamp_try_from_LockTime(lock_time) ==
    IF ~is_time_based(lock_time)
    THEN Err(InvalidTimelock)
    ELSE Ok(LockTimestamp(LockTime_into_consensus(lock_time)))

LockTimestamp_try_from_u32(value) ==
    LockTimestamp_try_from_LockTime(LockTime_from_consensus(value))

LockTimestamp_anytime == LockTimestamp(U32Zero)

\* #[derive(Default)] on a tuple struct of one u32
LockTimestamp_default == LockTimestamp(U32Zero)

\* a variant that is off by one at the threshold
from_unix_timestamp_exclusive(timestamp) ==
    IF U32Le(timestamp, LOCKTIME_THRESHOLD)
    THEN None
    ELSE Some(LockTimestamp(timestamp))

from_unix_timestamp(timestamp) ==
    IF U32Lt(timestamp, LOCKTIME_THRESHOLD)
    THEN None
    ELSE Some(LockTimestamp(timestamp))

LockTimestamp_into_consensus(self) == self.v

TimeOpen == <<"t", "i", "m", "e", "(">>

\* a variant that writes no closing parenthesis
LockTimestamp_fmt_unclosed(self) == TimeOpen \o u32_fmt(self.v)

LockTimestamp_fmt(self) == TimeOpen \o u32_fmt(self.v) \o <<")">>

LockTimestamp_from_str(str) ==
    LET s == to_lowercase(str)
    IN  IF s = <<"0">> \/ s = <<"n", "o", "n", "e">>
        THEN Ok(LockTimestamp_anytime)
        ELSE IF starts_with(s, TimeOpen) /\ ends_with(s, ")")
        THEN LET no == u32_parse(trim_end_matches(slice_from(s, 5), ")"))
             IN  IF IsErr(no) THEN no
                 ELSE IF IsErr(LockTimestamp_try_from_u32(no[2]))
                      THEN Err([kind |-> "InvalidTimestamp", no |-> no[2]])
                      ELSE LockTimestamp_try_from_u32(no[2])
        ELSE Err([text |-> s, kind |-> "InvalidDescriptor"])

(***************************************************************************)
(* LockHeight                                                              *)
(***************************************************************************)
LockHeight(v) == [v |-> v, ty |-> "LockHeight"]

LockHeight_try_from_LockTime(lock_time) ==
    IF ~is_height_based(lock_time)
    THEN Err(InvalidTimelock)
    ELSE Ok(LockHeight(LockTime_into_consensus(lock_time)))

LockHeight_try_from_u32(value) ==
    LockHeight_try_from_LockTime(LockTime_from_consensus(value))

LockHeight_anytime == LockHeight(U32Zero)

LockHeight_default == LockHeight(U32Zero)

from_height(height) ==
    IF U32Lt(height, LOCKTIME_THRESHOLD)
    THEN Some(LockHeight(height))
    ELSE None

LockHeight_into_consensus(self) == self.v

HeightOpen == <<"h", "e", "i", "g", "h", "t", "(">>

LockHeight_fmt(self) == HeightOpen \o u32_fmt(self.v) \o <<")">>

\* a variant that slices the text where the timestamp parser does
LockHeight_from_str_slice5(str) ==
    LET s == to_lowercase(str)
    IN  IF s = <<"0">> \/ s = <<"n", "o", "n", "e">>
        THEN Ok(LockHeight_anytime)
        ELSE IF starts_with(s, HeightOpen) /\ ends_with(s, ")")
        THEN LET no == u32_parse(trim_end_matches(slice_from(s, 5), ")"))
             IN  IF IsErr(no) THEN no
                 ELSE IF IsErr(LockHeight_try_from_u32(no[2]))
                      THEN Err([kind |-> "InvalidHeight", no |-> no[2]])
                      ELSE LockHeight_try_from_u32(no[2])
        ELSE Err([text |-> s, kind |-> "InvalidDescriptor"])

\* a variant that reports a failed range check as the timestamp parser does
LockHeight_from_str_wrong_error(str) ==
    LET s == to_lowercase(str)
    IN  IF s = <<"0">> \/ s = <<"n", "o", "n", "e">>
        THEN Ok(LockHeight_anytime)
        ELSE IF starts_with(s, HeightOpen) /\ ends_with(s, ")")
        THEN LET no == u32_parse(trim_end_matches(slice_from(s, 7), ")"))
             IN  IF IsErr(no) THEN no
                 ELSE IF IsErr(LockHeight_try_from_u32(no[2]))
                      THEN Err([kind |-> "InvalidTimestamp", no |-> no[2]])
                      ELSE LockHeight_try_from_u32(no[2])
        ELSE Err([text |-> s, kind |-> "InvalidDescriptor"])

LockHeight_from_str(str) ==
    LET s == to_lowercase(str)
    IN  IF s = <<"0">> \/ s = <<"n", "o", "n", "e">>
        THEN Ok(LockHeight_anytime)
        ELSE IF starts_with(s, HeightOpen) /\ ends_with(s, ")")
        THEN LET no == u32_parse(trim_end_matches(slice_from(s, 7), ")"))
             IN  IF IsErr(no) THEN no
                 ELSE IF IsErr(LockHeight_try_from_u32(no[2]))
                      THEN Err([kind |-> "InvalidHeight", no |-> no[2]])
                      ELSE LockHeight_try_from_u32(no[2])
        ELSE Err([text |-> s, kind |-> "InvalidDescriptor"])

(***************************************************************************)
(* The inputs the lock-time operations are tried on.                       *)
(***************************************************************************)
\* integers around 0, the limb boundary, the threshold and u32::MAX, and
\* the integers of the documented examples
Values ==
    {U32Of(n) : n \in 0..Spread}
    \cup {U32Of(n) : n \in (Base - Spread)..(Base + Spread)}
    \cup {U32Of(n) : n \in (500000000 - Spread)..(500000000 + Spread)}
    \cup {<<U32Max[1], U32Max[2] - k>> : k \in 0..Spread}
    \cup {U32Of(100), U32Of(700000), U32Of(600000000)}

RECURSIVE Close(_)
Close(k) == IF k = 0 THEN <<>> ELSE <<")">> \o Close(k - 1)

Heads ==
    { <<>>, TimeOpen, HeightOpen,
      <<"T", "i", "m", "e", "(">>, <<"H", "E", "I", "G", "H", "T", "(">>,
      <<"t", "i", "m", "e">>, <<"x", "t", "i", "m", "e", "(">> }

Bodies ==
    {u32_fmt(v) : v \in Values}
    \cup {<<"+">> \o u32_fmt(v) : v \in Values}
    \cup {<<"0">> \o u32_fmt(v) : v \in Values}
    \cup { <<>>, <<"+">>, <<"-", "1">>, <<"1", "a">>, <<" ", "5">>, <<"5", ")", "6">>,
           <<"4", "2", "9", "4", "9", "6", "7", "2", "9", "6">>,
           <<"9", "9", "9", "9", "9", "9", "9", "9", "9", "9", "9">> }

Tails == {Close(k) : k \in 0..MaxClose} \cup {<<")", "x">>, <<")", " ">>}

Whole ==
    { <<"0">>, <<"n", "o", "n", "e">>, <<"N", "O", "N", "E">>, <<"N", "o", "n", "e">>,
      <<"g", "a", "r", "b", "a", "g", "e">>, <<"G", "A", "R", "B", "A", "G", "E">>,
      <<"0", "0">>, <<"n", "o", "n", "e", " ">> }

Texts == {h \o b \o t : h \in Heads, b \in Bodies, t \in Tails} \cup Whole

Types == {"LockTimestamp", "LockHeight"}

NoText == [s |-> <<>>, of |-> None, set |-> FALSE]

NoCall == [ty |-> "none", fn |-> "none", arg |-> <<>>, ret |-> <<>>]

NoDesc == [tag |-> "none"]

(***************************************************************************)
(* The lock-time operations as steps of a caller: `lock` is the value the   *)
(* caller constructed and by which constructor, `text` the text it holds    *)
(* (read from outside, or formatted from `lock`), `last` its last call.     *)
(***************************************************************************)
InitLock ==
    /\ lock = None
    /\ text = NoText
    /\ last = NoCall
    /\ desc = NoDesc
    /\ call = NoCall

Constructed(fn, ty, arg, ret, made) ==
    /\ lock' = IF made = None THEN None ELSE Some([v |-> made[2], by |-> fn])
    /\ text' = NoText
    /\ last' = [ty |-> ty, fn |-> fn, arg |-> arg, ret |-> ret]
    /\ UNCHANGED <<desc, call>>

Anytime ==
    \/ Constructed("anytime", "LockTimestamp", <<>>, LockTimestamp_anytime,
                   Some(LockTimestamp_anytime))
    \/ Constructed("anytime", "LockHeight", <<>>, LockHeight_anytime,
                   Some(LockHeight_anytime))

Default ==
    \/ Constructed("default", "LockTimestamp", <<>>, LockTimestamp_default,
                   Some(LockTimestamp_default))
    \/ Constructed("default", "LockHeight", <<>>, LockHeight_default,
                   Some(LockHeight_default))

FromUnixTimestamp ==
    \E t \in Values :
        Constructed("from_unix_timestamp", "LockTimestamp", t,
                    from_unix_timestamp(t), from_unix_timestamp(t))

FromHeight ==
    \E h \in Values :
        Constructed("from_height", "LockHeight", h, from_height(h), from_height(h))

OkToOption(r) == IF IsOk(r) THEN Some(r[2]) ELSE None

TryFromU32 ==
    \E value \in Values :
        \/ Constructed("try_from_u32", "LockTimestamp", value,
                       LockTimestamp_try_from_u32(value),
                       OkToOption(LockTimestamp_try_from_u32(value)))
        \/ Constructed("try_from_u32", "LockHeight", value,
                       LockHeight_try_from_u32(value),
                       OkToOption(LockHeight_try_from_u32(value)))

TryFromLockTime ==
    \E value \in Values :
        LET lock_time == LockTime_from_consensus(value)
        IN  \/ Constructed("try_from_LockTime", "LockTimestamp", value,
                           LockTimestamp_try_from_LockTime(lock_time),
                           OkToOption(LockTimestamp_try_from_LockTime(lock_time)))
            \/ Constructed("try_from_LockTime", "LockHeight", value,
                           LockHeight_try_from_LockTime(lock_time),
                           OkToOption(LockHeight_try_from_LockTime(lock_time)))

\* the caller formats the lock it holds
Display ==
    /\ IsSome(lock)
    /\ text' = [s |-> IF lock[2].v.ty = "LockTimestamp"
                      THEN LockTimestamp_fmt(lock[2].v)
                      ELSE LockHeight_fmt(lock[2].v),
                of |-> lock, set |-> TRUE]
    /\ last' = [ty |-> lock[2].v.ty, fn |-> "fmt", arg |-> <<>>, ret |-> <<>>]
    /\ UNCHANGED <<lock, desc, call>>

\* the caller, holding no text, takes one from outside
ReadText ==
    \E s \in Texts :
        /\ ~text.set
        /\ text' = [s |-> s, of |-> None, set |-> TRUE]
        /\ lock' = None
        /\ last' = [ty |-> "none", fn |-> "read", arg |-> <<>>, ret |-> <<>>]
        /\ UNCHANGED <<desc, call>>

\* the caller parses the text it holds as either type
FromStr ==
    /\ text.set
    /\ \/ last' = [ty |-> "LockTimestamp", fn |-> "from_str", arg |-> text.s,
                   ret |-> LockTimestamp_from_str(text.s)]
       \/ last' = [ty |-> "LockHeight", fn |-> "from_str", arg |-> text.s,
                   ret |-> LockHeight_from_str(text.s)]
    /\ UNCHANGED <<lock, text, desc, call>>

NextLock ==
    \/ Anytime
    \/ Default
    \/ FromUnixTimestamp
    \/ FromHeight
    \/ TryFromU32
    \/ TryFromLockTime
    \/ Display
    \/ ReadText
    \/ FromStr

SpecLock == InitLock /\ [][NextLock]_vars

(***************************************************************************)
(* What the lock-time claims speak of, stated apart from the code.         *)
(***************************************************************************)
TimestampRange(v) == U32Le(LOCKTIME_THRESHOLD, v)

HeightRange(v) == U32Lt(v, LOCKTIME_THRESHOLD)

\* the range a stored value of either type is documented to lie in
StoredRange(l) ==
    IF l.ty = "LockTimestamp"
    THEN l.v = U32Zero \/ TimestampRange(l.v)
    ELSE HeightRange(l.v)

\* the integers a flavour's text form may carry
FormRange(ty, v) ==
    IF ty = "LockTimestamp" THEN TimestampRange(v) ELSE HeightRange(v)

\* wrong range for a flavour, zero being "anytime" for both
WrongRange(ty, v) ==
    IF ty = "LockTimestamp"
    THEN v # U32Zero /\ HeightRange(v)
    ELSE TimestampRange(v)

Open(ty) == IF ty = "LockTimestamp" THEN TimeOpen ELSE HeightOpen

MkLock(ty, v) == IF ty = "LockTimestamp" THEN LockTimestamp(v) ELSE LockHeight(v)

AnytimeOf(ty) == MkLock(ty, U32Zero)

RangeError(ty) == IF ty = "LockTimestamp" THEN "InvalidTimestamp" ELSE "InvalidHeight"

AnytimeTexts == {<<"0">>, <<"n", "o", "n", "e">>}

AllDigits(d) == \A i \in 1..Len(d) : IsDigit(d[i])

Unsigned(d) == IF Len(d) > 0 /\ d[1] = "+" THEN Tail(d) ELSE d

RECURSIVE StripZeros(_)
StripZeros(d) == IF Len(d) > 1 /\ d[1] = "0" THEN StripZeros(Tail(d)) ELSE d

\* d is a decimal numeral of n: an optional '+', then digits, leading zeros
\* allowed
Numeral(d, n) ==
    /\ Len(Unsigned(d)) > 0
    /\ AllDigits(Unsigned(d))
    /\ StripZeros(Unsigned(d)) = u32_fmt(n)

RECURSIVE DigitsLe(_, _)
DigitsLe(a, b) ==
    \/ Len(a) = 0
    \/ to_digit(a[1]) < to_digit(b[1])
    \/ a[1] = b[1] /\ DigitsLe(Tail(a), Tail(b))

\* d is a decimal numeral of some u32
U32Numeral(d) ==
    /\ Len(Unsigned(d)) > 0
    /\ AllDigits(Unsigned(d))
    /\ LET z == StripZeros(Unsigned(d))
           m == u32_fmt(U32Max)
       IN  Len(z) < Len(m) \/ (Len(z) = Len(m) /\ DigitsLe(z, m))

\* l is Open(ty), a numeral of n, and k >= 1 closing parentheses
ClosedForm(ty, l, n) ==
    \E k \in 1..Len(l) :
        /\ Len(l) >= Len(Open(ty)) + k
        /\ SubSeq(l, 1, Len(Open(ty))) = Open(ty)
        /\ SubSeq(l, Len(l) - k + 1, Len(l)) = Close(k)
        /\ Numeral(SubSeq(l, Len(Open(ty)) + 1, Len(l) - k), n)

\* l opens as the flavour's form and ends with ')'
Shaped(ty, l) == starts_with(l, Open(ty)) /\ ends_with(l, ")")

\* what stands between the opening and the closing parentheses
Embedded(ty, l) == trim_end_matches(slice_from(l, Len(Open(ty))), ")")

Parsed == last.fn = "from_str"

\* the last call parsed the text that Display made of the held lock, as the
\* lock's own type
Reparsed == Parsed /\ IsSome(text.of) /\ last.ty = text.of[2].v.ty

(***************************************************************************)
(* Claims on the lock-time types, checked under SpecLock.                  *)
(***************************************************************************)

\* C1: from_unix_timestamp(t) succeeds exactly when t >= 500,000,000 and
\* from_height(h) exactly when h < 500,000,000; on success into_consensus()
\* of the result is the input.
C1_ConstructorBoundary ==
    /\ last.fn = "from_unix_timestamp" =>
          /\ IsSome(last.ret) <=> TimestampRange(last.arg)
          /\ IsSome(last.ret) => LockTimestamp_into_consensus(last.ret[2]) = last.arg
    /\ last.fn = "from_height" =>
          /\ IsSome(last.ret) <=> HeightRange(last.arg)
          /\ IsSome(last.ret) => LockHeight_into_consensus(last.ret[2]) = last.arg

\* from_unix_timestamp succeeded at exactly the threshold
C1_Witness ==
    /\ last.fn = "from_unix_timestamp"
    /\ last.arg = LOCKTIME_THRESHOLD
    /\ IsSome(last.ret)

\* C2: every LockTimestamp made by anytime, default, from_unix_timestamp,
\* TryFrom<u32>, TryFrom<LockTime> or from_str stores 0 or a value
\* >= 500,000,000, and every LockHeight so made stores a value < 500,000,000
\* (so the two can share only the stored value 0).
C2_RangeInvariant ==
    /\ IsSome(lock) => StoredRange(lock[2].v)
    /\ Parsed /\ IsOk(last.ret) => StoredRange(last.ret[2])

\* a LockTimestamp was made from a generic LockTime
C2_Witness ==
    /\ IsSome(lock)
    /\ lock[2].by = "try_from_LockTime"
    /\ lock[2].v.ty = "LockTimestamp"

\* C3: a lock made by from_unix_timestamp(t), t >= 500,000,000, or by
\* from_height(h), h < 500,000,000 (h = 0 included), formatted by Display and
\* parsed by from_str of its own type, parses to a value equal to it.
C3_RoundTrip ==
    Reparsed /\ text.of[2].by \in {"from_unix_timestamp", "from_height"}
        => last.ret = Ok(text.of[2].v)

\* the height 0 went through from_height, Display and from_str
C3_Witness ==
    /\ Reparsed
    /\ text.of[2].by = "from_height"
    /\ text.of[2].v.v = U32Zero
    /\ IsOk(last.ret)

\* C4: for both types from_str("0") and from_str("none") yield anytime(), and
\* the text Display makes of anytime() is accepted by from_str of the same
\* type and parses back to anytime().
C4_AnytimeText ==
    /\ Parsed /\ last.arg \in AnytimeTexts => last.ret = Ok(AnytimeOf(last.ty))
    /\ Reparsed /\ text.of[2].by = "anytime" => last.ret = Ok(AnytimeOf(last.ty))

\* C5: TryFrom<u32> and TryFrom<LockTime> fail with InvalidTimelock exactly
\* when the value is in the wrong range for the flavour: LockHeight rejects
\* values >= 500,000,000, LockTimestamp rejects nonzero values < 500,000,000,
\* and zero is accepted by both.
C5_TryFromRange ==
    last.fn \in {"try_from_u32", "try_from_LockTime"} =>
        /\ WrongRange(last.ty, last.arg) => last.ret = Err(InvalidTimelock)
        /\ ~WrongRange(last.ty, last.arg) => last.ret = Ok(MkLock(last.ty, last.arg))

\* C6 as stated, letter case and the spelling of the numeral N aside: from_str
\* accepts only "0", "none" and the flavour's own form, "time(" / "height(",
\* N in the flavour's range and the one closing ')', yielding N; a form with
\* other characters around N is a failure.
C6_OnlyExactForms ==
    Parsed /\ IsOk(last.ret) =>
        LET l == to_lowercase(last.arg)
        IN  \/ l \in AnytimeTexts /\ last.ret[2] = AnytimeOf(last.ty)
            \/ /\ Len(l) > Len(Open(last.ty))
               /\ SubSeq(l, 1, Len(Open(last.ty))) = Open(last.ty)
               /\ l[Len(l)] = ")"
               /\ Numeral(SubSeq(l, Len(Open(last.ty)) + 1, Len(l) - 1), last.ret[2].v)
               /\ FormRange(last.ty, last.ret[2].v)

\* C6 amended: from_str accepts exactly the texts that, lowercased, are "0" or
\* "none" (yielding anytime), or are the flavour's opening "time(" /
\* "height(", a decimal numeral of a u32 N in the flavour's range (an optional
\* '+', leading zeros allowed) and one or more ')' (yielding a lock that
\* stores N); every other text is a failure.
C6_AcceptedTexts ==
    Parsed =>
        LET l == to_lowercase(last.arg)
        IN  /\ l \in AnytimeTexts => last.ret = Ok(AnytimeOf(last.ty))
            /\ \A n \in Values :
                  ClosedForm(last.ty, l, n) /\ FormRange(last.ty, n)
                      => last.ret = Ok(MkLock(last.ty, n))
            /\ IsOk(last.ret) =>
                  \/ l \in AnytimeTexts /\ last.ret[2] = AnytimeOf(last.ty)
                  \/ /\ ClosedForm(last.ty, l, last.ret[2].v)
                     /\ FormRange(last.ty, last.ret[2].v)
                     /\ last.ret[2].ty = last.ty

\* "time(600000000))", with one ')' too many, parsed to the lock 600000000
C6_Witness ==
    /\ Parsed
    /\ last.ty = "LockTimestamp"
    /\ last.arg = TimeOpen \o u32_fmt(U32Of(600000000)) \o <<")", ")">>
    /\ last.ret = Ok(LockTimestamp(U32Of(600000000)))

\* C7, with the text InvalidDescriptor carries left open: a text of
\* unrecognized shape fails with InvalidDescriptor carrying `carried`; a text
\* of the flavour's shape whose integer N is in the wrong range fails with
\* InvalidTimestamp(N) / InvalidHeight(N); one whose embedded text is no u32
\* fails with the integer-parse error.
ErrorClasses(carried) ==
    Parsed =>
        LET l == to_lowercase(last.arg)
            e == Embedded(last.ty, l)
        IN  /\ l \notin AnytimeTexts /\ ~Shaped(last.ty, l) =>
                  /\ IsErr(last.ret)
                  /\ last.ret[2].kind = "InvalidDescriptor"
                  /\ last.ret[2].text = carried
            /\ l \notin AnytimeTexts /\ Shaped(last.ty, l) =>
                  /\ \A n \in Values :
                        Numeral(e, n) /\ WrongRange(last.ty, n) =>
                            /\ IsErr(last.ret)
                            /\ last.ret[2].kind = RangeError(last.ty)
                            /\ last.ret[2].no = n
                  /\ ~U32Numeral(e) =>
                        /\ IsErr(last.ret)
                        /\ last.ret[2].kind = "ParseIntError"

\* C7 as stated: InvalidDescriptor carries the text that was parsed.
C7_ErrorCarriesText == ErrorClasses(last.arg)

\* C7 amended: InvalidDescriptor carries the lowercased text; the rest as
\* stated.
C7_ErrorCarriesLowercase == ErrorClasses(to_lowercase(last.arg))

\* "height(500000000)" failed with InvalidHeight(500000000)
C7_Witness ==
    /\ Parsed
    /\ last.ty = "LockHeight"
    /\ last.arg = HeightOpen \o u32_fmt(LOCKTIME_THRESHOLD) \o <<")">>
    /\ last.ret = Err([kind |-> "InvalidHeight", no |-> LOCKTIME_THRESHOLD])

(***************************************************************************)
(* Descriptors.  A key is what its capability trait shows of it: the public *)
(* key it derives at each (keychain, index), its XpubSpec and its range of   *)
(* keychains.  Hashes and scripts are symbolic terms over the key.           *)
(***************************************************************************)
Keychain == 0..MaxKeychain

NormalIndex == 0..MaxIndex

Terminal == [keychain : Keychain, index : NormalIndex]

PkBytes == {"pkA", "pkB"}

XpubSpec ==
    { [xpub |-> "xpubA", origin |-> "originA"],
      [xpub |-> "xpubB", origin |-> "originB"] }

\* the values of a key type K: DeriveCompr or K: DeriveXOnly
Key ==
    [ derive : [Keychain \X NormalIndex -> PkBytes],
      xpub_spec : XpubSpec,
      keychains : {[start |-> 0, end |-> MaxKeychain + 1]} ]

K_keychains(k) == k.keychains

K_derive(k, keychain, index) == k.derive[<<keychain, index>>]

K_xpub_spec(k) == k.xpub_spec

XpubSpec_origin(x) == x.origin

WPubkeyHash_with(key) == [hash160 |-> key]

ScriptPubkey_p2wpkh(hash) == <<"OP_PUSHBYTES_0", hash>>

DerivedScript_Bare(script) == [script |-> script, variant |-> "Bare"]

DerivedScript_TaprootKeyOnly(pk) == [variant |-> "TaprootKeyOnly", internal_key |-> pk]

KeyOrigin_with(origin, terminal) == [origin |-> origin, terminal |-> terminal]

\* a TapDerivation of an internal key has no leaf hashes
TapDerivation_with_internal_pk(origin, terminal) ==
    [origin |-> KeyOrigin_with(origin, terminal), leaf_hashes |-> <<>>]

\* From<..> for TaprootPk: the same x-only bytes under the other type
TaprootPk_from(key) == [TaprootPk |-> key]

\* IndexMap: the entries in insertion order
IndexMap_new == <<>>

IndexMap_with_capacity(n) == <<>>

IndexMap_insert(map, key, value) ==
    IF \E i \in 1..Len(map) : map[i].key = key
    THEN [i \in 1..Len(map) |->
             IF map[i].key = key THEN [value |-> value, key |-> key] ELSE map[i]]
    ELSE Append(map, [value |-> value, key |-> key])

\* iter::once, iter::empty, and collect::<Vec<_>>().into_iter()
iter_once(x) == <<x>>

iter_empty == <<>>

collect_vec(it) == [i \in 1..Len(it) |-> it[i]]

(***************************************************************************)
(* Wpkh                                                                    *)
(***************************************************************************)
Wpkh(k) == [ty |-> "Wpkh", key |-> k]

Wpkh_keychains(self) == K_keychains(self.key)

Wpkh_derive(self, keychain, index) ==
    LET key == K_derive(self.key, keychain, index)
    IN  DerivedScript_Bare(ScriptPubkey_p2wpkh(WPubkeyHash_with(key)))

Wpkh_keys(self) == iter_once(self.key)

Wpkh_vars(self) == iter_empty

Wpkh_xpubs(self) == iter_once(K_xpub_spec(self.key))

\* a variant that derives on the first keychain whatever the terminal
Wpkh_compr_keyset_keychain0(self, terminal) ==
    LET key == K_derive(self.key, 0, terminal.index)
    IN  IndexMap_insert(IndexMap_with_capacity(1), key,
            KeyOrigin_with(XpubSpec_origin(K_xpub_spec(self.key)), terminal))

Wpkh_compr_keyset(self, terminal) ==
    LET map == IndexMap_with_capacity(1)
        key == K_derive(self.key, terminal.keychain, terminal.index)
    IN  IndexMap_insert(map, key,
            KeyOrigin_with(XpubSpec_origin(K_xpub_spec(self.key)), terminal))

\* a variant that reports the derived key as a Taproot key
Wpkh_xonly_keyset_derived(self, terminal) ==
    LET key == K_derive(self.key, terminal.keychain, terminal.index)
    IN  IndexMap_insert(IndexMap_with_capacity(1), TaprootPk_from(key),
            TapDerivation_with_internal_pk(XpubSpec_origin(K_xpub_spec(self.key)),
                                           terminal))

Wpkh_xonly_keyset(self, terminal) == IndexMap_new

(***************************************************************************)
(* TrKey                                                                   *)
(***************************************************************************)
TrKey(k) == [ty |-> "TrKey", key |-> k]

TrKey_keychains(self) == K_keychains(self.key)

TrKey_derive(self, keychain, index) ==
    LET internal_key == K_derive(self.key, keychain, index)
    IN  DerivedScript_TaprootKeyOnly(internal_key)

TrKey_keys(self) == iter_once(self.key)

TrKey_vars(self) == iter_empty

TrKey_xpubs(self) == iter_once(K_xpub_spec(self.key))

TrKey_compr_keyset(self, terminal) == IndexMap_new

TrKey_xonly_keyset(self, terminal) ==
    LET map == IndexMap_with_capacity(1)
        key == K_derive(self.key, terminal.keychain, terminal.index)
    IN  IndexMap_insert(map, TaprootPk_from(key),
            TapDerivation_with_internal_pk(XpubSpec_origin(K_xpub_spec(self.key)),
                                           terminal))

(***************************************************************************)
(* DescriptorStd                                                           *)
(***************************************************************************)
DescriptorStd_Wpkh(d) == [d |-> d, variant |-> "Wpkh"]

DescriptorStd_TrKey(d) == [d |-> d, variant |-> "TrKey"]

DescriptorStd_keychains(self) ==
    CASE self.variant = "Wpkh" -> Wpkh_keychains(self.d)
      [] self.variant = "TrKey" -> TrKey_keychains(self.d)

DescriptorStd_derive(self, keychain, index) ==
    CASE self.variant = "Wpkh" -> Wpkh_derive(self.d, keychain, index)
      [] self.variant = "TrKey" -> TrKey_derive(self.d, keychain, index)

DescriptorStd_keys(self) ==
    CASE self.variant = "Wpkh" -> collect_vec(Wpkh_keys(self.d))
      [] self.variant = "TrKey" -> collect_vec(TrKey_keys(self.d))

DescriptorStd_vars(self) == iter_empty

DescriptorStd_xpubs(self) ==
    CASE self.variant = "Wpkh" -> collect_vec(Wpkh_xpubs(self.d))
      [] self.variant = "TrKey" -> collect_vec(TrKey_xpubs(self.d))

DescriptorStd_compr_keyset(self, terminal) ==
    CASE self.variant = "Wpkh" -> Wpkh_compr_keyset(self.d, terminal)
      [] self.variant = "TrKey" -> TrKey_compr_keyset(self.d, terminal)

\* a variant whose TrKey arm does not delegate
DescriptorStd_xonly_keyset_undelegated(self, terminal) ==
    CASE self.variant = "Wpkh" -> Wpkh_xonly_keyset(self.d, terminal)
      [] self.variant = "TrKey" -> IndexMap_new

DescriptorStd_xonly_keyset(self, terminal) ==
    CASE self.variant = "Wpkh" -> Wpkh_xonly_keyset(self.d, terminal)
      [] self.variant = "TrKey" -> TrKey_xonly_keyset(self.d, terminal)

(***************************************************************************)
(* The descriptor operations as steps of a caller that holds a              *)
(* DescriptorStd `desc`, fully formed and never changed.  Every step calls  *)
(* one operation on `desc` (std) and the same operation on the Wpkh or      *)
(* TrKey inside it (direct), and keeps both results in `call`.              *)
(***************************************************************************)
Descriptors ==
    {DescriptorStd_Wpkh(Wpkh(k)) : k \in Key} \cup {DescriptorStd_TrKey(TrKey(k)) : k \in Key}

NoQuery == [fn |-> "none", arg |-> <<>>, direct |-> <<>>, std |-> <<>>]

InitDesc ==
    /\ desc \in Descriptors
    /\ call = NoQuery
    /\ lock = None
    /\ text = NoText
    /\ last = NoCall

IsWpkh == desc.d.ty = "Wpkh"

Called(fn, arg, direct, std) ==
    /\ call' = [fn |-> fn, arg |-> arg, direct |-> direct, std |-> std]
    /\ UNCHANGED <<desc, lock, text, last>>

Keychains ==
    Called("keychains", <<>>,
           IF IsWpkh THEN Wpkh_keychains(desc.d) ELSE TrKey_keychains(desc.d),
           DescriptorStd_keychains(desc))

Derive ==
    \E keychain \in Keychain, index \in NormalIndex :
        Called("derive", [keychain |-> keychain, index |-> index],
               IF IsWpkh THEN Wpkh_derive(desc.d, keychain, index)
                         ELSE TrKey_derive(desc.d, keychain, index),
               DescriptorStd_derive(desc, keychain, index))

Keys ==
    Called("keys", <<>>,
           IF IsWpkh THEN Wpkh_keys(desc.d) ELSE TrKey_keys(desc.d),
           DescriptorStd_keys(desc))

Vars ==
    Called("vars", <<>>,
           IF IsWpkh THEN Wpkh_vars(desc.d) ELSE TrKey_vars(desc.d),
           DescriptorStd_vars(desc))

Xpubs ==
    Called("xpubs", <<>>,
           IF IsWpkh THEN Wpkh_xpubs(desc.d) ELSE TrKey_xpubs(desc.d),
           DescriptorStd_xpubs(desc))

ComprKeyset ==
    \E terminal \in Terminal :
        Called("compr_keyset", terminal,
               IF IsWpkh THEN Wpkh_compr_keyset(desc.d, terminal)
                         ELSE TrKey_compr_keyset(desc.d, terminal),
               DescriptorStd_compr_keyset(desc, terminal))

XonlyKeyset ==
    \E terminal \in Terminal :
        Called("xonly_keyset", terminal,
               IF IsWpkh THEN Wpkh_xonly_keyset(desc.d, terminal)
                         ELSE TrKey_xonly_keyset(desc.d, terminal),
               DescriptorStd_xonly_keyset(desc, terminal))

NextDesc ==
    \/ Keychains
    \/ Derive
    \/ Keys
    \/ Vars
    \/ Xpubs
    \/ ComprKeyset
    \/ XonlyKeyset

SpecDesc == InitDesc /\ [][NextDesc]_vars

(***************************************************************************)
(* Claims on the descriptors, checked under SpecDesc.                      *)
(***************************************************************************)

\* C8: xonly_keyset of a Wpkh and compr_keyset of a TrKey are empty at every
\* terminal, called directly or through DescriptorStd; so at most one of the
\* two keysets of a descriptor is non-empty at a terminal, and derive yields
\* Bare only for Wpkh and TaprootKeyOnly only for TrKey.
C8_ClassSeparation ==
    /\ call.fn = "xonly_keyset" /\ desc.variant = "Wpkh" =>
          call.direct = <<>> /\ call.std = <<>>
    /\ call.fn = "compr_keyset" /\ desc.variant = "TrKey" =>
          call.direct = <<>> /\ call.std = <<>>
    /\ call.fn = "compr_keyset" /\ call.std # <<>> =>
          DescriptorStd_xonly_keyset(desc, call.arg) = <<>>
    /\ call.fn = "xonly_keyset" /\ call.std # <<>> =>
          DescriptorStd_compr_keyset(desc, call.arg) = <<>>
    /\ call.fn = "derive" =>
          /\ call.direct.variant = "Bare" <=> desc.variant = "Wpkh"
          /\ call.direct.variant = "TaprootKeyOnly" <=> desc.variant = "TrKey"
          /\ call.std.variant = call.direct.variant

\* xonly_keyset was called on a Wpkh at the last terminal of the model
C8_Witness ==
    /\ call.fn = "xonly_keyset"
    /\ desc.variant = "Wpkh"
    /\ call.arg = [keychain |-> MaxKeychain, index |-> MaxIndex]

\* C9: every operation called on a DescriptorStd returns what the same
\* operation returns on the Wpkh or TrKey inside it, same elements in the same
\* order; keys() and xpubs() yield one element each and vars() none.
C9_DispatchEquivalence ==
    /\ call.fn # "none" => call.std = call.direct
    /\ call.fn \in {"keys", "xpubs"} => Len(call.std) = 1
    /\ call.fn = "vars" => Len(call.std) = 0

\* xonly_keyset was called on a DescriptorStd holding a TrKey and returned an
\* entry
C9_Witness ==
    /\ call.fn = "xonly_keyset"
    /\ desc.variant = "TrKey"
    /\ Len(call.std) = 1

\* C10: compr_keyset(terminal) of a Wpkh is one entry, whose key is the
\* compressed key that derive(terminal.keychain, terminal.index) hashes into
\* its P2WPKH script and whose KeyOrigin carries the XpubSpec origin and the
\* terminal; xonly_keyset(terminal) of a TrKey is one entry, whose key is the
\* x-only key inside derive's TaprootKeyOnly and whose TapDerivation is that of
\* an internal key with the XpubSpec origin and the terminal; a repeated call
\* with the same terminal returns an equal map.
C10_KeysetAgreesWithScript ==
    /\ [](call.fn = "compr_keyset" /\ desc.variant = "Wpkh" =>
            /\ Len(call.direct) = 1
            /\ Wpkh_derive(desc.d, call.arg.keychain, call.arg.index)
                 = DerivedScript_Bare(ScriptPubkey_p2wpkh(
                       WPubkeyHash_with(call.direct[1].key)))
            /\ call.direct[1].value
                 = [origin |-> desc.d.key.xpub_spec.origin, terminal |-> call.arg])
    /\ [](call.fn = "xonly_keyset" /\ desc.variant = "TrKey" =>
            /\ Len(call.direct) = 1
            /\ TrKey_derive(desc.d, call.arg.keychain, call.arg.index)
                 = DerivedScript_TaprootKeyOnly(call.direct[1].key.TaprootPk)
            /\ call.direct[1].value.leaf_hashes = <<>>
            /\ call.direct[1].value.origin
                 = [origin |-> desc.d.key.xpub_spec.origin, terminal |-> call.arg])
    /\ [][call'.fn = call.fn /\ call.fn \in {"compr_keyset", "xonly_keyset"}
            => (call'.arg = call.arg => call'.direct = call.direct)]_vars

\* compr_keyset of a Wpkh returned the key derived on a keychain other than
\* the first
C10_Witness ==
    /\ call.fn = "compr_keyset"
    /\ desc.variant = "Wpkh"
    /\ call.arg.keychain = MaxKeychain
    /\ call.direct[1].key = desc.d.key.derive[<<MaxKeychain, call.arg.index>>]
    /\ call.direct[1].key # desc.d.key.derive[<<0, call.arg.index>>]

====
